---------------------------- MODULE Spec2Model ----------------------------
(***************************************************************************)
(* Model of MindSpider/DeepSentimentCrawling/MediaCrawler/                 *)
(* import_xhs_from_excel.py: alias-based column resolution, per-row        *)
(* normalisation and the import run over one workbook.                     *)
(*                                                                         *)
(* Text labels of the source that are written in Chinese are spelled here  *)
(* in pinyin, because the module's strings are ASCII; the original label   *)
(* is given beside each one.                                               *)
(***************************************************************************)
EXTENDS Integers, Sequences, FiniteSets, TLC

(***************************************************************************)
(* Bounds of the model.                                                    *)
(***************************************************************************)
\* longest header sequence handed to _build_col_map on its own
MaxHdr == 3
\* most rows of the sheet whose content varies freely
MaxRows == 2
\* import runs made one after the other against the same persistence layer
MaxRuns == 2

(***************************************************************************)
(* Python values, as far as the importer tells them apart.                 *)
(*   k = "none"   None (also what _get returns for a NaN cell)             *)
(*   k = "nan"    float NaN, pandas' blank cell                            *)
(*   k = "int"    int n                                                    *)
(*   k = "float"  finite float, n tenths (129 is 12.9)                     *)
(*   k = "inf"    float infinity, sign n                                   *)
(*   k = "str"    text s                                                   *)
(***************************************************************************)
PyNone == [k |-> "none", n |-> 0, s |-> ""]
PyNaN == [k |-> "nan", n |-> 0, s |-> ""]
PyInt(i) == [k |-> "int", n |-> i, s |-> ""]
PyFloat(tenths) == [k |-> "float", n |-> tenths, s |-> ""]
PyInf == [k |-> "inf", n |-> 1, s |-> ""]
PyStr(t) == [k |-> "str", n |-> 0, s |-> t]

(***************************************************************************)
(* The alias tables, lines 49-95.                                          *)
(***************************************************************************)
NOTE_ALIASES ==
    [ note_id |-> <<"note_id", "biji_id", "biji_ID">>,          \* 笔记id 笔记ID
      note_url |-> <<"note_url", "biji_lianjie">>,              \* 笔记链接
      title |-> <<"title", "biji_biaoti">>,                     \* 笔记标题
      desc |-> <<"desc", "biji_neirong">>,                      \* 笔记内容
      time |-> <<"time", "fabu_shijian">>,                      \* 发布时间
      tag_list |-> <<"tag_list", "huati", "biji_neirong_biaoqian">>, \* 话题 笔记内容标签
      source_keyword |-> <<"source_keyword", "mingzhong_guanjianci">>, \* 命中关键词
      liked_count |-> <<"liked_count", "dianzan", "zan", "hudongliang">>, \* 点赞 赞 互动量
      collected_count |-> <<"collected_count", "shoucang">>,    \* 收藏
      comment_count |-> <<"comment_count", "pinglun">>,         \* 评论
      share_count |-> <<"share_count", "fenxiang">>,            \* 分享
      user_id |-> <<"user_id", "zhanghao_xiaohongshuhao", "zuozhe_ID">>, \* 账号小红书号 作者ID
      nickname |-> <<"nickname", "zhanghao_nicheng">>,          \* 账号昵称
      avatar |-> <<"avatar", "touxiang", "zhanghao_touxiang">>, \* 头像 账号头像
      ip_location |-> <<"ip_location", "fawen_shudi", "IP_shudi">> ] \* 发文属地 IP属地

CREATOR_ALIASES ==
    [ user_id |-> <<"user_id", "zhanghao_xiaohongshuhao", "zuozhe_ID">>,
      nickname |-> <<"nickname", "zhanghao_nicheng">>,
      avatar |-> <<"avatar", "touxiang", "zhanghao_touxiang">>,
      ip_location |-> <<"ip_location", "IP_shudi", "changzhudi">>, \* IP属地 常驻地
      desc |-> <<"desc", "zhanghao_jianjie", "zuozhe_jianjie">>,  \* 账号简介 作者简介
      gender |-> <<"gender", "xingbie">>,                         \* 性别
      follows |-> <<"follows", "guanzhushu">>,                    \* 关注数
      fans |-> <<"fans", "dangqian_fensishu", "fensishu">>,       \* 当前粉丝数 粉丝数
      interaction |-> <<"interaction", "hudongliang">>,           \* 互动量
      tag_list |-> <<"tag_list", "zhanghao_biaoqian">> ]          \* 账号标签

COMMENT_ALIASES ==
    [ comment_id |-> <<"comment_id", "pinglun_id", "pinglun_ID">>, \* 评论id 评论ID
      note_id |-> <<"note_id", "biji_id", "biji_ID">>,
      user_id |-> <<"user_id", "zhanghao_xiaohongshuhao", "zuozhe_ID">>,
      nickname |-> <<"nickname", "zhanghao_nicheng">>,
      avatar |-> <<"avatar", "touxiang", "zhanghao_touxiang">>,
      ip_location |-> <<"ip_location", "IP_shudi">>,
      content |-> <<"content", "pinglun_neirong">>,               \* 评论内容
      create_time |-> <<"create_time", "pinglun_shijian">>,       \* 评论时间
      sub_comment_count |-> <<"sub_comment_count", "huifushu">>,  \* 回复数
      pictures |-> <<"pictures", "tupian">>,                      \* 图片
      parent_comment_id |-> <<"parent_comment_id", "fu_pinglun_id">>, \* 父评论id
      like_count |-> <<"like_count", "dianzanshu", "zan">> ]      \* 点赞数 赞

\* the alias table of an entity kind
AliasesOf(kind) ==
    CASE kind = "creator" -> CREATOR_ALIASES
      [] kind = "note" -> NOTE_ALIASES
      [] kind = "comment" -> COMMENT_ALIASES

(***************************************************************************)
(* str.lower() on the labels that occur: the ones holding capitals map to  *)
(* their lower-case spelling, every other label is lower-case already.     *)
(***************************************************************************)
Lower(t) ==
    CASE t = "biji_ID" -> "biji_id"
      [] t = "zuozhe_ID" -> "zuozhe_id"
      [] t = "IP_shudi" -> "ip_shudi"
      [] t = "pinglun_ID" -> "pinglun_id"
      [] t = "Note_ID" -> "note_id"
      [] t = "NOTE_ID" -> "note_id"
      [] t = "User_ID" -> "user_id"
      [] t = "Dianzan" -> "dianzan"
      [] OTHER -> t

(***************************************************************************)
(* _build_col_map, lines 98-109.                                           *)
(***************************************************************************)
\* the empty dict
EmptyMap == [x \in {} |-> ""]

\* d[key] = val
DictSet(d, key, val) ==
    [x \in DOMAIN d \cup {key} |-> IF x = key THEN val ELSE d[x]]

\* a bug the lookup could have (or a choice it could have made): a key once
\* set is kept, so that the first of the columns of a key stays
RECURSIVE LowerColsFirstWins(_, _)
LowerColsFirstWins(columns, upto) ==
    IF upto = 0 THEN EmptyMap
    ELSE LET d == LowerColsFirstWins(columns, upto - 1)
         IN IF Lower(columns[upto]) \in DOMAIN d THEN d
            ELSE DictSet(d, Lower(columns[upto]), columns[upto])

\* line 101: {c.lower(): c for c in columns}, one column after the other, a
\* later column overwriting an earlier one under the same key
RECURSIVE LowerColsUpTo(_, _)
LowerColsUpTo(columns, upto) ==
    IF upto = 0 THEN EmptyMap
    ELSE DictSet(LowerColsUpTo(columns, upto - 1), Lower(columns[upto]), columns[upto])

lower_cols(columns) == LowerColsUpTo(columns, Len(columns))

\* a bug _build_col_map could have: the aliases of a field tried from the last
\* to the first
RECURSIVE LastAliasFrom(_, _, _)
LastAliasFrom(names, lc, from) ==
    IF from > Len(names) THEN ""
    ELSE LET rest == LastAliasFrom(names, lc, from + 1)
         IN IF rest # "" THEN rest
            ELSE IF Lower(names[from]) \in DOMAIN lc THEN lc[Lower(names[from])] ELSE ""

\* lines 104-108: the column of the first alias, from names[from] on, that the
\* lookup knows and whose column is a non-empty label; "" when there is none
RECURSIVE FirstAliasFrom(_, _, _)
FirstAliasFrom(names, lc, from) ==
    IF from > Len(names) THEN ""
    ELSE LET col == IF Lower(names[from]) \in DOMAIN lc THEN lc[Lower(names[from])] ELSE ""
         IN IF col # "" THEN col ELSE FirstAliasFrom(names, lc, from + 1)

\* lines 101-109
_build_col_map(columns, aliases) ==
    LET lc == lower_cols(columns)
        found == {field \in DOMAIN aliases : FirstAliasFrom(aliases[field], lc, 1) # ""}
    IN [field \in found |-> FirstAliasFrom(aliases[field], lc, 1)]


(***************************************************************************)
(* Python's conversions on these values.                                   *)
(***************************************************************************)
\* an exception leaving a conversion (int() of an infinite float raises
\* OverflowError, which no handler of the importer catches)
PyRaise == [k |-> "raise", n |-> 0, s |-> "OverflowError"]

\* a date-time cell, n the instant in milliseconds since the epoch
PyDatetime(ms) == [k |-> "datetime", n |-> ms, s |-> ""]

\* pd.isna(val) on a scalar
isna(val) == val.k \in {"none", "nan"}

\* bool(val): what `if not val` tests
Truthy(val) ==
    CASE val.k = "none" -> FALSE
      [] val.k \in {"int", "float"} -> val.n # 0
      [] val.k = "str" -> val.s # ""
      [] OTHER -> TRUE

Digit == <<"0", "1", "2", "3", "4", "5", "6", "7", "8", "9">>

\* str(n) of a natural number
RECURSIVE NatStr(_)
NatStr(n) == IF n < 10 THEN Digit[n + 1] ELSE NatStr(n \div 10) \o Digit[(n % 10) + 1]

\* str(n) of an int
IntStr(n) == IF n < 0 THEN "-" \o NatStr(-n) ELSE NatStr(n)

\* int(x) of a finite float given in tenths: truncation toward zero
Trunc(tenths) == IF tenths >= 0 THEN tenths \div 10 ELSE -((-tenths) \div 10)

\* str(val)
Str(val) ==
    CASE val.k = "str" -> val.s
      [] val.k = "int" -> IntStr(val.n)
      [] val.k = "float" ->
            (IF val.n < 0 THEN "-" ELSE "")
                \o NatStr(IF val.n < 0 THEN (-val.n) \div 10 ELSE val.n \div 10)
                \o "." \o Digit[((IF val.n < 0 THEN -val.n ELSE val.n) % 10) + 1]
      [] val.k = "inf" -> "inf"
      [] val.k = "nan" -> "nan"
      [] val.k = "none" -> "None"
      [] val.k = "datetime" -> "datetime:" \o IntStr(val.n)

\* str.strip() on the texts that occur
Strip(t) ==
    CASE t = " " -> ""
      [] t = " 5 " -> "5"
      [] OTHER -> t

\* float(t) on the texts that occur: the float, or PyRaise for a ValueError
ParseFloat(t) ==
    CASE t = "12.9" -> PyFloat(129)
      [] t = "-3.9" -> PyFloat(-39)
      [] t = "7" -> PyFloat(70)
      [] t = "0" -> PyFloat(0)
      [] t = " 5 " -> PyFloat(50)
      [] t = "inf" -> PyInf
      [] t = "1e400" -> PyInf
      [] t = "nan" -> PyNaN
      [] OTHER -> [PyRaise EXCEPT !.s = "ValueError"]

\* int(x) of a float: PyRaise (OverflowError) for an infinity, PyRaise
\* (ValueError) for a NaN
IntOfFloat(x) ==
    CASE x.k = "float" -> PyInt(Trunc(x.n))
      [] x.k = "inf" -> PyRaise
      [] x.k = "nan" -> [PyRaise EXCEPT !.s = "ValueError"]

\* _get, lines 112-124: row is the mapping column label -> cell
_get(row, col_map, field, default) ==
    LET col == IF field \in DOMAIN col_map THEN col_map[field] ELSE "" IN
    IF col = "" THEN default
    ELSE LET val == IF col \in DOMAIN row THEN row[col] ELSE default
         IN IF isna(val) THEN default ELSE val

\* _to_int, lines 127-142: the int, the default, or PyRaise when the
\* OverflowError of int(inf) leaves the function
_to_int(val, default) ==
    IF isna(val) THEN default
    ELSE IF val.k = "int" THEN val
    ELSE IF val.k \in {"float", "inf"} THEN IntOfFloat(val)
    ELSE IF val.k = "str" /\ Strip(val.s) # "" THEN
        LET f == ParseFloat(val.s) IN
        IF f.k = "raise" THEN default
        ELSE LET i == IntOfFloat(f) IN
             IF i.k = "raise" /\ i.s = "ValueError" THEN default ELSE i
    ELSE default

\* pd.to_datetime on the texts that occur: the instant in ms, or PyRaise
ParseDatetime(t) ==
    CASE t = "1970-01-01 00:00:02" -> PyDatetime(2000)
      [] OTHER -> [PyRaise EXCEPT !.s = "ValueError"]

\* _to_ts_ms, lines 145-158
_to_ts_ms(val, default) ==
    LET num == _to_int(val, PyNone) IN
    IF num # PyNone THEN num
    ELSE IF val = PyNone THEN default
    ELSE IF val.k = "datetime" THEN PyInt(val.n)
    ELSE IF val.k = "str" /\ ParseDatetime(val.s).k = "datetime"
         THEN PyInt(ParseDatetime(val.s).n)
    ELSE default


(***************************************************************************)
(* The record constructors of the three sections.  A record is a mapping   *)
(* field -> Python value; RAISED stands for the exception that leaves the  *)
(* row when one of its conversions raises.                                 *)
(***************************************************************************)
RAISED == [raised |-> TRUE]

\* str(x) of a converted number, the exception kept
StrOf(x) == IF x.k = "raise" THEN x ELSE PyStr(Str(x))

\* the record, or RAISED when one of its fields is an exception
Built(rec) == IF \E f \in DOMAIN rec : rec[f].k = "raise" THEN RAISED ELSE rec

\* lines 231-244
XhsCreator(row, col_map, user_id_str, now) ==
    Built([ user_id |-> PyStr(user_id_str),
            nickname |-> _get(row, col_map, "nickname", PyNone),
            avatar |-> _get(row, col_map, "avatar", PyNone),
            ip_location |-> _get(row, col_map, "ip_location", PyNone),
            desc |-> _get(row, col_map, "desc", PyNone),
            gender |-> _get(row, col_map, "gender", PyNone),
            follows |-> StrOf(_to_int(_get(row, col_map, "follows", PyNone), PyInt(0))),
            fans |-> StrOf(_to_int(_get(row, col_map, "fans", PyNone), PyInt(0))),
            interaction |-> StrOf(_to_int(_get(row, col_map, "interaction", PyNone), PyInt(0))),
            tag_list |-> _get(row, col_map, "tag_list", PyNone),
            add_ts |-> PyInt(now),
            last_modify_ts |-> PyInt(now) ])

\* line 274: the literal columns of the tag merge
\* 笔记分类, 提及品类, 种草品牌, 商业合作品牌
TagColumns == <<"biji_fenlei", "tiji_pinlei", "zhongcao_pinpai", "shangye_hezuo_pinpai">>

\* lines 273-278: the stripped text cells of TagColumns[from..], in that order
RECURSIVE extra_tags(_, _, _)
extra_tags(columns, row, from) ==
    IF from > Len(TagColumns) THEN <<>>
    ELSE LET col_name == TagColumns[from]
             present == (\E c \in DOMAIN columns : columns[c] = col_name) /\ col_name \in DOMAIN row
             val == IF present THEN row[col_name] ELSE PyNone
         IN (IF val.k = "str" /\ Strip(val.s) # "" THEN <<Strip(val.s)>> ELSE <<>>)
                \o extra_tags(columns, row, from + 1)

\* " | ".join(tags) of a non-empty list
RECURSIVE Join(_)
Join(tags) ==
    IF Len(tags) = 1 THEN tags[1] ELSE tags[1] \o " | " \o Join(Tail(tags))

\* lines 272-281
merged_tag_list(columns, row, col_map) ==
    LET raw_tag_list == _get(row, col_map, "tag_list", PyNone)
        extra == extra_tags(columns, row, 1)
        tags == IF raw_tag_list # PyNone /\ Strip(Str(raw_tag_list)) # ""
                THEN <<Strip(Str(raw_tag_list))>> \o extra ELSE extra
    IN IF tags # <<>> THEN PyStr(Join(tags)) ELSE PyNone

\* lines 268-310
XhsNote(columns, row, col_map, note_id, now) ==
    LET raw_user_id == _get(row, col_map, "user_id", PyNone) IN
    Built([ user_id |-> IF Truthy(raw_user_id) THEN PyStr(Str(raw_user_id)) ELSE PyStr("unknown"),
            nickname |-> _get(row, col_map, "nickname", PyNone),
            avatar |-> _get(row, col_map, "avatar", PyNone),
            ip_location |-> _get(row, col_map, "ip_location", PyNone),
            add_ts |-> PyInt(now),
            last_modify_ts |-> PyInt(now),
            note_id |-> PyStr(Str(note_id)),
            type |-> PyNone,
            title |-> _get(row, col_map, "title", PyNone),
            desc |-> _get(row, col_map, "desc", PyNone),
            video_url |-> PyNone,
            time |-> _to_ts_ms(_get(row, col_map, "time", PyNone), PyInt(now)),
            last_update_time |-> PyInt(now),
            liked_count |-> StrOf(_to_int(_get(row, col_map, "liked_count", PyNone), PyInt(0))),
            collected_count |-> StrOf(_to_int(_get(row, col_map, "collected_count", PyNone), PyInt(0))),
            comment_count |-> StrOf(_to_int(_get(row, col_map, "comment_count", PyNone), PyInt(0))),
            share_count |-> StrOf(_to_int(_get(row, col_map, "share_count", PyNone), PyInt(0))),
            image_list |-> PyNone,
            tag_list |-> merged_tag_list(columns, row, col_map),
            note_url |-> _get(row, col_map, "note_url", PyNone),
            source_keyword |-> _get(row, col_map, "source_keyword", PyNone),
            xsec_token |-> PyNone ])

\* x or 0, of a converted number
OrZero(x) == IF x.k = "raise" \/ Truthy(x) THEN x ELSE PyInt(0)

\* lines 330-346
XhsNoteComment(row, col_map, comment_id, note_id, now) ==
    Built([ user_id |-> IF Truthy(_get(row, col_map, "user_id", PyNone))
                        THEN PyStr(Str(_get(row, col_map, "user_id", PyNone))) ELSE PyNone,
            nickname |-> _get(row, col_map, "nickname", PyNone),
            avatar |-> _get(row, col_map, "avatar", PyNone),
            ip_location |-> _get(row, col_map, "ip_location", PyNone),
            add_ts |-> PyInt(now),
            last_modify_ts |-> PyInt(now),
            comment_id |-> PyStr(Str(comment_id)),
            create_time |-> _to_ts_ms(_get(row, col_map, "create_time", PyNone), PyInt(now)),
            note_id |-> PyStr(Str(note_id)),
            content |-> _get(row, col_map, "content", PyNone),
            sub_comment_count |-> OrZero(_to_int(_get(row, col_map, "sub_comment_count", PyNone), PyInt(0))),
            pictures |-> _get(row, col_map, "pictures", PyNone),
            parent_comment_id |-> _get(row, col_map, "parent_comment_id", PyNone),
            like_count |-> StrOf(_to_int(_get(row, col_map, "like_count", PyNone), PyInt(0))) ])

(***************************************************************************)
(* Data frames and workbooks.                                              *)
(***************************************************************************)
\* a DataFrame: its column labels in sheet order and its rows, each a mapping
\* column label -> cell; DfNone is the None that _read_sheet returns
Df(columns, rows) == [none |-> FALSE, columns |-> columns, rows |-> rows]
DfNone == [none |-> TRUE, columns |-> <<>>, rows |-> <<>>]

\* df.empty
Empty(df) == Len(df.columns) = 0 \/ Len(df.rows) = 0

\* the parameters' defaults, lines 173-175
notes_sheet == "xhs_note"
creators_sheet == "xhs_creator"
comments_sheet == "xhs_note_comment"


(***************************************************************************)
(* The workbooks the runs import.  One sheet of a workbook varies: it has  *)
(* up to MaxRows rows, each taken from a few rows that between them hold   *)
(* every kind of cell the row handlers tell apart (blank, zero, number,    *)
(* text, the same id as number and as text, an infinite number); the other *)
(* sheets come from a short list: missing, empty, without a required       *)
(* column, or holding one good row.                                        *)
(***************************************************************************)
\* the sequences over S of length at most n
SeqsUpTo(S, n) == UNION {[1..k -> S] : k \in 0..n}

\* a row of two cells
Row2(c1, a, c2, b) == (c1 :> a) @@ (c2 :> b)

\* the sheets of the given columns with at most n rows, each taken from rows
SheetsOver(columns, rows, n) == {Df(columns, rr) : rr \in SeqsUpTo(rows, n)}

CreatorSheets ==
    SheetsOver(<<"user_id", "nickname">>,
               { Row2("user_id", PyNaN, "nickname", PyStr("A")),
                 Row2("user_id", PyInt(0), "nickname", PyStr("A")),
                 Row2("user_id", PyInt(7), "nickname", PyStr("A")),
                 Row2("user_id", PyStr("7"), "nickname", PyStr("B")),
                 Row2("user_id", PyStr("u1"), "nickname", PyStr("A")),
                 Row2("user_id", PyStr("u1"), "nickname", PyStr("B")) }, MaxRows)
    \cup SheetsOver(<<"zhanghao_xiaohongshuhao", "fensishu">>,
               { Row2("zhanghao_xiaohongshuhao", PyStr("u1"), "fensishu", PyFloat(129)),
                 Row2("zhanghao_xiaohongshuhao", PyStr("u2"), "fensishu", PyStr("abc")),
                 Row2("zhanghao_xiaohongshuhao", PyStr("u3"), "fensishu", PyInf) }, MaxRows)

NoteSheets ==
    SheetsOver(<<"Note_ID", "user_id">>,
               { Row2("Note_ID", PyNaN, "user_id", PyStr("u1")),
                 Row2("Note_ID", PyInt(0), "user_id", PyStr("u1")),
                 Row2("Note_ID", PyStr("n1"), "user_id", PyStr("u1")),
                 Row2("Note_ID", PyStr("n2"), "user_id", PyNaN),
                 Row2("Note_ID", PyStr("n3"), "user_id", PyInt(0)) }, MaxRows)
    \cup SheetsOver(<<"zhanghao_nicheng", "hudongliang">>,
               { Row2("zhanghao_nicheng", PyStr("A"), "hudongliang", PyNaN),
                 Row2("zhanghao_nicheng", PyStr("A"), "hudongliang", PyStr("12.9")),
                 Row2("zhanghao_nicheng", PyStr("A"), "hudongliang", PyInf) }, MaxRows)
    \cup SheetsOver(<<"title">>, {("title" :> PyStr("t"))}, MaxRows + 2)

CommentSheets ==
    SheetsOver(<<"comment_id", "biji_id">>,
               { Row2("comment_id", PyStr("c1"), "biji_id", PyStr("n1")),
                 Row2("comment_id", PyNaN, "biji_id", PyStr("n1")),
                 Row2("comment_id", PyStr("c2"), "biji_id", PyNaN),
                 Row2("comment_id", PyInt(0), "biji_id", PyStr("n1")),
                 Row2("comment_id", PyStr("c3"), "biji_id", PyInt(0)) }, MaxRows)

\* a single sheet read for creators and for notes
MergedSheets ==
    SheetsOver(<<"zhanghao_xiaohongshuhao", "biji_id">>,
               { Row2("zhanghao_xiaohongshuhao", PyStr("u1"), "biji_id", PyStr("n1")),
                 Row2("zhanghao_xiaohongshuhao", PyStr("u1"), "biji_id", PyStr("n2")),
                 Row2("zhanghao_xiaohongshuhao", PyNaN, "biji_id", PyStr("n3")),
                 Row2("zhanghao_xiaohongshuhao", PyStr("u2"), "biji_id", PyNaN) }, MaxRows)
    \cup SheetsOver(<<"zhanghao_xiaohongshuhao", "hudongliang">>,
               { Row2("zhanghao_xiaohongshuhao", PyStr("u1"), "hudongliang", PyInt(5)),
                 Row2("zhanghao_xiaohongshuhao", PyInt(0), "hudongliang", PyFloat(129)),
                 Row2("zhanghao_xiaohongshuhao", PyStr("u2"), "hudongliang", PyInf) }, MaxRows)

\* the short list for a sheet that is not the one varying; DfNone: no sheet
\* of that name
OtherCreatorSheets ==
    { DfNone,
      Df(<<"user_id", "nickname">>, <<>>),
      Df(<<"nickname">>, <<("nickname" :> PyStr("A"))>>),
      Df(<<"user_id", "nickname">>, <<("user_id" :> PyStr("u9")) @@ ("nickname" :> PyStr("Z"))>>) }

OtherNoteSheets ==
    { DfNone,
      Df(<<"note_id">>, <<>>),
      Df(<<"title">>, <<("title" :> PyStr("t"))>>),
      Df(<<"note_id", "user_id">>, <<("note_id" :> PyStr("n9")) @@ ("user_id" :> PyStr("u9"))>>) }

OtherCommentSheets ==
    { DfNone,
      Df(<<"comment_id", "note_id">>, <<>>),
      Df(<<"comment_id">>, <<("comment_id" :> PyStr("c9"))>>),
      Df(<<"comment_id", "note_id">>, <<("comment_id" :> PyStr("c9")) @@ ("note_id" :> PyStr("n9"))>>) }

\* a sheet that no section asks for
FillerSheet == Df(<<"memo">>, <<("memo" :> PyStr("x"))>>)

\* the workbook holding the sheets c, n, k (each a data frame, or DfNone for
\* none) under the names the run looks up, with filler sheets "other1",
\* "other2" added until it holds two sheets: a workbook of exactly one sheet
\* is read in merged mode
NamedWorkbook(c, n, k) ==
    LET named == (IF n.none THEN <<>> ELSE <<notes_sheet>>)
                 \o (IF c.none THEN <<>> ELSE <<creators_sheet>>)
                 \o (IF k.none THEN <<>> ELSE <<comments_sheet>>)
        names == named \o SubSeq(<<"other1", "other2">>, 1, 2 - Len(named))
    IN [ sheet_names |-> names,
         sheets |-> [nm \in {names[i] : i \in DOMAIN names} |->
                        CASE nm = notes_sheet -> n
                          [] nm = creators_sheet -> c
                          [] nm = comments_sheet -> k
                          [] OTHER -> FillerSheet] ]

\* the workbook of the single sheet df under the name nm
SingleWorkbook(nm, df) == [sheet_names |-> <<nm>>, sheets |-> (nm :> df)]

CreatorWorkbooks ==
    {NamedWorkbook(c, n, k) : c \in CreatorSheets, n \in OtherNoteSheets, k \in OtherCommentSheets}

NoteWorkbooks ==
    {NamedWorkbook(c, n, k) : c \in OtherCreatorSheets, n \in NoteSheets, k \in OtherCommentSheets}

CommentWorkbooks ==
    {NamedWorkbook(c, n, k) : c \in OtherCreatorSheets, n \in OtherNoteSheets, k \in CommentSheets}

MergedWorkbooks ==
    {SingleWorkbook(nm, df) : nm \in {"Sheet1", comments_sheet}, df \in MergedSheets}

Workbooks == CreatorWorkbooks \cup NoteWorkbooks \cup CommentWorkbooks \cup MergedWorkbooks


(***************************************************************************)
(* The state.                                                              *)
(***************************************************************************)
VARIABLES
    wb,         \* wb[r]: the workbook at the path run r is given
    nruns,      \* the number of import runs that are made
    run,        \* run[r]: the locals of run r of import_from_excel, its
                \* position pc, the batches it handed to its session (added),
                \* the commits it requested and the lines it logged
    persisted,  \* the rows of the persistence layer, in commit order; it has
                \* no uniqueness constraint
    rs,         \* a call of _build_col_map on its own: its arguments and result
    co          \* a call of _to_int, of _to_ts_ms or of the tag merge on its
                \* own: its arguments and result

vars == <<wb, nruns, run, persisted, rs, co>>

Runs == 1..MaxRuns

\* the instants time.time() may give, in ms
Times == {1000, 2000}

\* the locals before the call
IdleRun ==
    [ pc |-> "idle", now_ms |-> 0,
      df_notes |-> DfNone, df_creators |-> DfNone, df_comments |-> DfNone,
      session |-> "unset",
      col_map |-> EmptyMap, objs |-> <<>>, seen_user_ids |-> {}, i |-> 0,
      added |-> <<>>, commits |-> 0, log |-> <<>> ]

IdleResolve == [pc |-> "idle", kind |-> "note", columns |-> <<>>, col_map |-> EmptyMap]

IdleCall == [pc |-> "idle", fn |-> "_to_int", val |-> PyNone, default |-> PyNone,
             columns |-> <<>>, row |-> <<>>, result |-> PyNone]

\* one import of one workbook
Init ==
    /\ \E w \in Workbooks : wb = [r \in Runs |-> w]
    /\ nruns = 1
    /\ run = [r \in Runs |-> IdleRun]
    /\ persisted = <<>>
    /\ rs = IdleResolve
    /\ co = IdleCall

\* run r with the locals changed as in upd, a record of the changed locals
Goto(r, upd) ==
    run' = [run EXCEPT ![r] = [f \in DOMAIN @ |-> IF f \in DOMAIN upd THEN upd[f] ELSE @[f]]]

\* logger.<level>(line)
Logged(r, level, line) == Append(run[r].log, [level |-> level, line |-> line])

\* _read_sheet, lines 161-168: None when the workbook has no sheet of the name
_read_sheet(w, sheet_name) ==
    IF sheet_name \in DOMAIN w.sheets THEN w.sheets[sheet_name] ELSE DfNone

\* a bug the layout detection could have: merged mode for every workbook
\* that lacks the comment sheet
is_single_sheet_loose(sheet_names) ==
    ~ \E j \in DOMAIN sheet_names : sheet_names[j] = comments_sheet

\* line 195: the workbook was opened and has exactly one sheet
is_single_sheet(sheet_names) == Len(sheet_names) = 1

\* lines 179-207: the start time and the three data frames.  The path exists
\* and the workbook can be opened (wb[r] is what pd.ExcelFile reads from it);
\* the runs are made one after the other, and the clock does not go back.
Start(r) ==
    /\ run[r].pc = "idle"
    /\ r <= nruns
    /\ \A q \in Runs : q < r => run[q].pc \in {"done", "failed"}
    /\ \E t \in Times :
        /\ \A q \in Runs : q < r => run[q].now_ms <= t
        /\ LET w == wb[r]
               single == is_single_sheet(w.sheet_names)
               df_single == w.sheets[w.sheet_names[1]]
           IN Goto(r, [ pc |-> "get_session", now_ms |-> t,
                        df_notes |-> IF single THEN df_single ELSE _read_sheet(w, notes_sheet),
                        df_creators |-> IF single THEN df_single ELSE _read_sheet(w, creators_sheet),
                        df_comments |-> IF single THEN DfNone ELSE _read_sheet(w, comments_sheet),
                        log |-> IF single
                                THEN Logged(r, "info", "single sheet")
                                ELSE run[r].log
                                     \o (IF notes_sheet \in DOMAIN w.sheets THEN <<>>
                                         ELSE <<[level |-> "warning", line |-> "notes sheet not found"]>>)
                                     \o (IF creators_sheet \in DOMAIN w.sheets THEN <<>>
                                         ELSE <<[level |-> "warning", line |-> "creators sheet not found"]>>)
                                     \o (IF comments_sheet \in DOMAIN w.sheets THEN <<>>
                                         ELSE <<[level |-> "warning", line |-> "comments sheet not found"]>>) ])
    /\ UNCHANGED <<wb, nruns, persisted, rs, co>>

\* a bug the run could have: the error is logged for a session that is None
\* but the return is missing, and the sections go on
EnterSessionNoReturn(r) ==
    /\ run[r].pc = "get_session"
    /\ \E s \in {"open", "none"} :
        IF s = "none"
        THEN Goto(r, [pc |-> "creator", session |-> "none",
                      log |-> Logged(r, "error", "no SQL session")])
        ELSE Goto(r, [pc |-> "creator", session |-> "open"])
    /\ UNCHANGED <<wb, nruns, persisted, rs, co>>

\* lines 209-212: the session of get_session(), or None when the store is not
\* an SQL one; with None the run returns
EnterSession(r) ==
    /\ run[r].pc = "get_session"
    /\ \E s \in {"open", "none"} :
        IF s = "none"
        THEN Goto(r, [pc |-> "exit", session |-> "none",
                      log |-> Logged(r, "error", "no SQL session")])
        ELSE Goto(r, [pc |-> "creator", session |-> "open"])
    /\ UNCHANGED <<wb, nruns, persisted, rs, co>>

\* a bug the hand-over could have: a batch handed to the session a second time
add_all_again(r, table, objs) ==
    IF objs # <<>>
    THEN run[r].added \o <<[table |-> table, objs |-> objs], [table |-> table, objs |-> objs]>>
    ELSE run[r].added

\* session.add_all(objs) under `if objs`
add_all(r, table, objs) ==
    IF objs # <<>> THEN Append(run[r].added, [table |-> table, objs |-> objs])
    ELSE run[r].added


(***************************************************************************)
(* The xhs_creator section, lines 215-248.                                 *)
(***************************************************************************)
\* a bug the section could have: a creator sheet without a user_id column
\* ends the run instead of only its section
CreatorBeginOrReturn(r) ==
    /\ run[r].pc = "creator"
    /\ LET df == run[r].df_creators
           cm == _build_col_map(df.columns, CREATOR_ALIASES)
       IN IF df.none \/ Empty(df) THEN Goto(r, [pc |-> "note"])
          ELSE IF "user_id" \notin DOMAIN cm
          THEN Goto(r, [pc |-> "exit", col_map |-> cm,
                        log |-> Logged(r, "warning", "creator sheet lacks user_id")])
          ELSE Goto(r, [pc |-> "creator_rows", col_map |-> cm,
                        objs |-> <<>>, seen_user_ids |-> {}, i |-> 1])
    /\ UNCHANGED <<wb, nruns, persisted, rs, co>>

\* lines 215-221
CreatorBegin(r) ==
    /\ run[r].pc = "creator"
    /\ LET df == run[r].df_creators
           cm == _build_col_map(df.columns, CREATOR_ALIASES)
       IN IF df.none \/ Empty(df) THEN Goto(r, [pc |-> "note"])
          ELSE IF "user_id" \notin DOMAIN cm
          THEN Goto(r, [pc |-> "note", col_map |-> cm,
                        log |-> Logged(r, "warning", "creator sheet lacks user_id")])
          ELSE Goto(r, [pc |-> "creator_rows", col_map |-> cm,
                        objs |-> <<>>, seen_user_ids |-> {}, i |-> 1])
    /\ UNCHANGED <<wb, nruns, persisted, rs, co>>

\* `if not val`, lines 224, 261, 328
is_falsy(val) == ~Truthy(val)

\* a bug the deduplication could have: no row is taken for a duplicate
is_seen_never(user_id_str, seen_user_ids) == FALSE

\* a bug the deduplication could have: the seen set kept at module level, so
\* that a run sees the user_ids of the runs before it
is_seen_in_any_run(user_id_str, seen_user_ids) ==
    \E q \in Runs : user_id_str \in run[q].seen_user_ids

\* line 228
is_seen(user_id_str, seen_user_ids) == user_id_str \in seen_user_ids

\* lines 222-245: one turn of the loop over the rows
CreatorRow(r) ==
    /\ run[r].pc = "creator_rows"
    /\ run[r].i <= Len(run[r].df_creators.rows)
    /\ LET row == run[r].df_creators.rows[run[r].i]
           user_id == _get(row, run[r].col_map, "user_id", PyNone)
           user_id_str == Str(user_id)
           obj == XhsCreator(row, run[r].col_map, user_id_str, run[r].now_ms)
       IN IF is_falsy(user_id) THEN Goto(r, [i |-> run[r].i + 1])
          ELSE IF is_seen(user_id_str, run[r].seen_user_ids) THEN Goto(r, [i |-> run[r].i + 1])
          ELSE IF obj = RAISED
          THEN Goto(r, [pc |-> "raised",
                        seen_user_ids |-> run[r].seen_user_ids \cup {user_id_str}])
          ELSE Goto(r, [i |-> run[r].i + 1,
                        seen_user_ids |-> run[r].seen_user_ids \cup {user_id_str},
                        objs |-> Append(run[r].objs, obj)])
    /\ UNCHANGED <<wb, nruns, persisted, rs, co>>

\* a bug the summary could have: it counts the rows of the sheet, not the
\* records accepted
CreatorEndCountsRows(r) ==
    /\ run[r].pc = "creator_rows"
    /\ run[r].i > Len(run[r].df_creators.rows)
    /\ Goto(r, [pc |-> "note",
                added |-> add_all(r, "xhs_creator", run[r].objs),
                log |-> Logged(r, "info", "Inserted " \o NatStr(Len(run[r].df_creators.rows)) \o " creators")])
    /\ UNCHANGED <<wb, nruns, persisted, rs, co>>

\* lines 246-248
CreatorEnd(r) ==
    /\ run[r].pc = "creator_rows"
    /\ run[r].i > Len(run[r].df_creators.rows)
    /\ Goto(r, [pc |-> "note",
                added |-> add_all(r, "xhs_creator", run[r].objs),
                log |-> Logged(r, "info", "Inserted " \o NatStr(Len(run[r].objs)) \o " creators")])
    /\ UNCHANGED <<wb, nruns, persisted, rs, co>>

(***************************************************************************)
(* The xhs_note section, lines 251-314.                                    *)
(***************************************************************************)
\* lines 251-257
NoteBegin(r) ==
    /\ run[r].pc = "note"
    /\ LET df == run[r].df_notes
           cm == _build_col_map(df.columns, NOTE_ALIASES)
       IN IF df.none \/ Empty(df) THEN Goto(r, [pc |-> "comment"])
          ELSE Goto(r, [pc |-> "note_rows", col_map |-> cm, objs |-> <<>>, i |-> 1,
                        log |-> IF "note_id" \notin DOMAIN cm
                                THEN Logged(r, "warning", "note sheet lacks note_id")
                                ELSE run[r].log])
    /\ UNCHANGED <<wb, nruns, persisted, rs, co>>

\* a bug the synthesis could have: the zero-based index taken as it is
row_note_id_zero_based(idx) == PyStr("row_" \o IntStr(idx))

\* line 266: f"row_{idx + 1}", idx the row's label in the frame's default index
row_note_id(idx) == PyStr("row_" \o IntStr(idx + 1))

\* a bug the loop could have: the exception of a row leaves the run at once,
\* past the exit of the session block, so that the session stays held
NoteRowLeak(r) ==
    /\ run[r].pc = "note_rows"
    /\ run[r].i <= Len(run[r].df_notes.rows)
    /\ LET row == run[r].df_notes.rows[run[r].i]
           idx == run[r].i - 1
           resolved == "note_id" \in DOMAIN run[r].col_map
           note_id == IF resolved THEN _get(row, run[r].col_map, "note_id", PyNone)
                      ELSE row_note_id(idx)
           obj == XhsNote(run[r].df_notes.columns, row, run[r].col_map, note_id, run[r].now_ms)
       IN IF resolved /\ is_falsy(note_id) THEN Goto(r, [i |-> run[r].i + 1])
          ELSE IF obj = RAISED THEN Goto(r, [pc |-> "failed"])
          ELSE Goto(r, [i |-> run[r].i + 1, objs |-> Append(run[r].objs, obj)])
    /\ UNCHANGED <<wb, nruns, persisted, rs, co>>

\* lines 258-311: one turn of the loop over the rows
NoteRow(r) ==
    /\ run[r].pc = "note_rows"
    /\ run[r].i <= Len(run[r].df_notes.rows)
    /\ LET row == run[r].df_notes.rows[run[r].i]
           idx == run[r].i - 1
           resolved == "note_id" \in DOMAIN run[r].col_map
           note_id == IF resolved THEN _get(row, run[r].col_map, "note_id", PyNone)
                      ELSE row_note_id(idx)
           obj == XhsNote(run[r].df_notes.columns, row, run[r].col_map, note_id, run[r].now_ms)
       IN IF resolved /\ is_falsy(note_id) THEN Goto(r, [i |-> run[r].i + 1])
          ELSE IF obj = RAISED THEN Goto(r, [pc |-> "raised"])
          ELSE Goto(r, [i |-> run[r].i + 1, objs |-> Append(run[r].objs, obj)])
    /\ UNCHANGED <<wb, nruns, persisted, rs, co>>

\* lines 312-314
NoteEnd(r) ==
    /\ run[r].pc = "note_rows"
    /\ run[r].i > Len(run[r].df_notes.rows)
    /\ Goto(r, [pc |-> "comment",
                added |-> add_all(r, "xhs_note", run[r].objs),
                log |-> Logged(r, "info", "Inserted " \o NatStr(Len(run[r].objs)) \o " notes")])
    /\ UNCHANGED <<wb, nruns, persisted, rs, co>>

(***************************************************************************)
(* The xhs_note_comment section, lines 317-350.                            *)
(***************************************************************************)
\* lines 317-324
CommentBegin(r) ==
    /\ run[r].pc = "comment"
    /\ LET df == run[r].df_comments
           cm == _build_col_map(df.columns, COMMENT_ALIASES)
       IN IF df.none \/ Empty(df) THEN Goto(r, [pc |-> "exit"])
          ELSE IF "comment_id" \notin DOMAIN cm \/ "note_id" \notin DOMAIN cm
          THEN Goto(r, [pc |-> "exit", col_map |-> cm,
                        log |-> Logged(r, "warning", "comment sheet lacks comment_id or note_id")])
          ELSE Goto(r, [pc |-> "comment_rows", col_map |-> cm, objs |-> <<>>, i |-> 1])
    /\ UNCHANGED <<wb, nruns, persisted, rs, co>>

\* lines 325-347: one turn of the loop over the rows
CommentRow(r) ==
    /\ run[r].pc = "comment_rows"
    /\ run[r].i <= Len(run[r].df_comments.rows)
    /\ LET row == run[r].df_comments.rows[run[r].i]
           comment_id == _get(row, run[r].col_map, "comment_id", PyNone)
           note_id == _get(row, run[r].col_map, "note_id", PyNone)
           obj == XhsNoteComment(row, run[r].col_map, comment_id, note_id, run[r].now_ms)
       IN IF is_falsy(comment_id) \/ is_falsy(note_id) THEN Goto(r, [i |-> run[r].i + 1])
          ELSE IF obj = RAISED THEN Goto(r, [pc |-> "raised"])
          ELSE Goto(r, [i |-> run[r].i + 1, objs |-> Append(run[r].objs, obj)])
    /\ UNCHANGED <<wb, nruns, persisted, rs, co>>

\* lines 348-350
CommentEnd(r) ==
    /\ run[r].pc = "comment_rows"
    /\ run[r].i > Len(run[r].df_comments.rows)
    /\ Goto(r, [pc |-> "exit",
                added |-> add_all(r, "xhs_note_comment", run[r].objs),
                log |-> Logged(r, "info", "Inserted " \o NatStr(Len(run[r].objs)) \o " comments")])
    /\ UNCHANGED <<wb, nruns, persisted, rs, co>>

(***************************************************************************)
(* Leaving `async with get_session()`.  get_session is the persistence     *)
(* collaborator (database.db_session): on a normal exit it commits what    *)
(* was added, on an exception it rolls back and the exception goes on to   *)
(* the caller.                                                             *)
(***************************************************************************)
\* the rows a commit writes: the records of the batches, in the order added
RECURSIVE Flatten(_)
Flatten(batches) ==
    IF batches = <<>> THEN <<>>
    ELSE [j \in DOMAIN batches[1].objs |-> [table |-> batches[1].table, obj |-> batches[1].objs[j]]]
         \o Flatten(Tail(batches))

\* the block of line 209 is left normally (its end, or the return of line 212)
ExitSession(r) ==
    /\ run[r].pc = "exit"
    /\ IF run[r].session = "open"
       THEN /\ Goto(r, [pc |-> "done", session |-> "committed", commits |-> run[r].commits + 1])
            /\ persisted' = persisted \o Flatten(run[r].added)
       ELSE /\ Goto(r, [pc |-> "done"])
            /\ UNCHANGED persisted
    /\ UNCHANGED <<wb, nruns, rs, co>>

\* the block of line 209 is left by an exception
AbortSession(r) ==
    /\ run[r].pc = "raised"
    /\ Goto(r, [pc |-> "failed", session |-> "rolled_back"])
    /\ UNCHANGED <<wb, nruns, persisted, rs, co>>

\* import_from_excel, run r
Import(r) ==
    \/ Start(r)
    \/ EnterSession(r)
    \/ CreatorBegin(r)
    \/ CreatorRow(r)
    \/ CreatorEnd(r)
    \/ NoteBegin(r)
    \/ NoteRow(r)
    \/ NoteEnd(r)
    \/ CommentBegin(r)
    \/ CommentRow(r)
    \/ CommentEnd(r)
    \/ ExitSession(r)
    \/ AbortSession(r)

Next == \E r \in Runs : Import(r)

Spec == Init /\ [][Next]_vars


(***************************************************************************)
(* The same workbook imported MaxRuns times, one run after the other.      *)
(***************************************************************************)
RerunWorkbooks ==
    {NamedWorkbook(c, DfNone, DfNone) : c \in CreatorSheets}
    \cup {NamedWorkbook(c, n, k) : c \in OtherCreatorSheets, n \in OtherNoteSheets,
                                   k \in OtherCommentSheets}

InitRerun ==
    /\ \E w \in RerunWorkbooks : wb = [r \in Runs |-> w]
    /\ nruns = MaxRuns
    /\ run = [r \in Runs |-> IdleRun]
    /\ persisted = <<>>
    /\ rs = IdleResolve
    /\ co = IdleCall

SpecRerun == InitRerun /\ [][Next]_vars

(***************************************************************************)
(* _build_col_map called on its own, on every sequence of at most MaxHdr   *)
(* distinct header labels (pandas makes the labels of a sheet distinct).   *)
(***************************************************************************)
Headers ==
    { "liked_count", "dianzan", "Dianzan", "zan", "hudongliang", "dianzanshu",
      "note_id", "Note_ID", "biji_ID" }

HeaderSeqs ==
    {hs \in SeqsUpTo(Headers, MaxHdr) : \A a, b \in DOMAIN hs : a # b => hs[a] # hs[b]}

InitResolve ==
    /\ wb = [r \in Runs |-> SingleWorkbook("Sheet1", FillerSheet)]
    /\ nruns = 0
    /\ run = [r \in Runs |-> IdleRun]
    /\ persisted = <<>>
    /\ \E kind \in {"creator", "note", "comment"}, hs \in HeaderSeqs :
          rs = [pc |-> "call", kind |-> kind, columns |-> hs, col_map |-> EmptyMap]
    /\ co = IdleCall

\* col_map = _build_col_map(df, aliases)
Resolve ==
    /\ rs.pc = "call"
    /\ rs' = [rs EXCEPT !.pc = "returned",
                        !.col_map = _build_col_map(rs.columns, AliasesOf(rs.kind))]
    /\ UNCHANGED <<wb, nruns, run, persisted, co>>

NextResolve == Resolve

SpecResolve == InitResolve /\ [][NextResolve]_vars


(***************************************************************************)
(* Two runs over different workbooks at the same time, each with the       *)
(* session get_session gave it: a step of either run can follow a step of  *)
(* the other.  All that a run works on are the locals of its call; the     *)
(* module holds nothing but the alias tables, which no run writes.         *)
(***************************************************************************)
\* the workbook of the first run: a single sheet of creators and notes, rows
\* of one user, or the three sheets under their names
ConcWorkbooks ==
    {SingleWorkbook("Sheet1", df) :
        df \in SheetsOver(<<"zhanghao_xiaohongshuhao", "biji_id">>,
                          { Row2("zhanghao_xiaohongshuhao", PyStr("u1"), "biji_id", PyStr("n1")),
                            Row2("zhanghao_xiaohongshuhao", PyStr("u1"), "biji_id", PyStr("n2")) },
                          MaxRows)}
    \cup {NamedWorkbook(
            Df(<<"user_id", "nickname">>, <<Row2("user_id", PyStr("u9"), "nickname", PyStr("Z"))>>),
            Df(<<"note_id", "user_id">>, <<Row2("note_id", PyStr("n9"), "user_id", PyStr("u9"))>>),
            Df(<<"comment_id", "note_id">>, <<Row2("comment_id", PyStr("c9"), "note_id", PyStr("n9"))>>))}

\* the workbook of the second run: the same user and note as rows of the
\* first, in a single sheet or in a creator sheet next to a comment sheet,
\* or a single sheet whose note row raises
ConcOtherWorkbooks ==
    { SingleWorkbook("Sheet1",
        Df(<<"zhanghao_xiaohongshuhao", "hudongliang">>,
           <<Row2("zhanghao_xiaohongshuhao", PyStr("u1"), "hudongliang", PyInf)>>)),
      SingleWorkbook("Sheet1",
        Df(<<"zhanghao_xiaohongshuhao", "biji_id">>,
           <<Row2("zhanghao_xiaohongshuhao", PyStr("u1"), "biji_id", PyStr("n2"))>>)),
      NamedWorkbook(
        Df(<<"user_id", "nickname">>, <<Row2("user_id", PyStr("u1"), "nickname", PyStr("B")),
                                        Row2("user_id", PyStr("u9"), "nickname", PyStr("Z"))>>),
        DfNone,
        Df(<<"comment_id", "note_id">>, <<Row2("comment_id", PyStr("c1"), "note_id", PyStr("n1"))>>)) }

InitConc ==
    /\ \E w1 \in ConcWorkbooks, w2 \in ConcOtherWorkbooks :
          /\ w1 # w2
          /\ wb = [r \in Runs |-> IF r = 1 THEN w1 ELSE w2]
    /\ nruns = 2
    /\ run = [r \in Runs |-> IdleRun]
    /\ persisted = <<>>
    /\ rs = IdleResolve
    /\ co = IdleCall

\* lines 179-207 when the runs are made at the same time: a run starts
\* whatever the others are doing
StartAnyTime(r) ==
    /\ run[r].pc = "idle"
    /\ r <= nruns
    /\ \E t \in Times :
        LET w == wb[r]
            single == is_single_sheet(w.sheet_names)
            df_single == w.sheets[w.sheet_names[1]]
        IN Goto(r, [ pc |-> "get_session", now_ms |-> t,
                     df_notes |-> IF single THEN df_single ELSE _read_sheet(w, notes_sheet),
                     df_creators |-> IF single THEN df_single ELSE _read_sheet(w, creators_sheet),
                     df_comments |-> IF single THEN DfNone ELSE _read_sheet(w, comments_sheet),
                     log |-> IF single
                             THEN Logged(r, "info", "single sheet")
                             ELSE run[r].log
                                  \o (IF notes_sheet \in DOMAIN w.sheets THEN <<>>
                                      ELSE <<[level |-> "warning", line |-> "notes sheet not found"]>>)
                                  \o (IF creators_sheet \in DOMAIN w.sheets THEN <<>>
                                      ELSE <<[level |-> "warning", line |-> "creators sheet not found"]>>)
                                  \o (IF comments_sheet \in DOMAIN w.sheets THEN <<>>
                                      ELSE <<[level |-> "warning", line |-> "comments sheet not found"]>>) ])
    /\ UNCHANGED <<wb, nruns, persisted, rs, co>>

\* import_from_excel, run r, next to the other run
ImportConc(r) ==
    \/ StartAnyTime(r)
    \/ EnterSession(r)
    \/ CreatorBegin(r)
    \/ CreatorRow(r)
    \/ CreatorEnd(r)
    \/ NoteBegin(r)
    \/ NoteRow(r)
    \/ NoteEnd(r)
    \/ CommentBegin(r)
    \/ CommentRow(r)
    \/ CommentEnd(r)
    \/ ExitSession(r)
    \/ AbortSession(r)

NextConc == \E r \in Runs : ImportConc(r)

SpecConc == InitConc /\ [][NextConc]_vars


(***************************************************************************)
(* The helpers on their own: one call of _to_int, of _to_ts_ms or of the   *)
(* tag merge of a note row, on arguments drawn from the kinds of value a   *)
(* cell can hold.                                                          *)
(***************************************************************************)
\* the values a cell hands to _to_int and _to_ts_ms
CallValues ==
    {PyNone, PyNaN, PyInf, PyDatetime(2000)}
    \cup {PyInt(i) : i \in {0, 12, -3, 1700000000}}
    \cup {PyFloat(t) : t \in {129, -39, 0, 70}}
    \cup {PyStr(t) : t \in {"12.9", "-3.9", "7", "0", " 5 ", "inf", "1e400", "nan",
                            "abc", "", " ", "1970-01-01 00:00:02"}}

\* the defaults the callers pass: None, 0 and now_ms
CallDefaults == {PyNone, PyInt(0)} \cup {PyInt(t) : t \in Times}

\* the headers of a note sheet with its tag columns: all of them, two of the
\* extra columns in another order with no tag_list column, one of them next
\* to a tag_list column, none of them
TagHeaderSeqs ==
    { <<"huati", "biji_fenlei", "tiji_pinlei", "zhongcao_pinpai", "shangye_hezuo_pinpai">>,
      <<"shangye_hezuo_pinpai", "biji_fenlei">>,
      <<"tag_list", "zhongcao_pinpai">>,
      <<"title">> }

\* the cells a column of such a sheet can hold: nothing, a text of its own,
\* blank text, padded text, a number
TagCellsOf(column) ==
    CASE column \in {"huati", "tag_list"} -> {PyNaN, PyStr("a"), PyStr(" "), PyInt(5)}
      [] column = "biji_fenlei" -> {PyNaN, PyStr("c1"), PyStr(" "), PyStr(" 5 "), PyInt(361)}
      [] column = "tiji_pinlei" -> {PyNaN, PyStr("c2"), PyStr(" "), PyStr(" 5 "), PyInt(361)}
      [] column = "zhongcao_pinpai" -> {PyNaN, PyStr("c3"), PyStr(" "), PyStr(" 5 "), PyInt(361)}
      [] column = "shangye_hezuo_pinpai" -> {PyNaN, PyStr("c4"), PyStr(" "), PyStr(" 5 "), PyInt(361)}
      [] OTHER -> {PyStr("t")}

\* the rows of a sheet with the headers columns
TagRows(columns) ==
    LET labels == {columns[j] : j \in DOMAIN columns}
        cells == UNION {TagCellsOf(c) : c \in labels}
    IN {row \in [labels -> cells] : \A c \in labels : row[c] \in TagCellsOf(c)}

InitCall ==
    /\ wb = [r \in Runs |-> SingleWorkbook("Sheet1", FillerSheet)]
    /\ nruns = 0
    /\ run = [r \in Runs |-> IdleRun]
    /\ persisted = <<>>
    /\ rs = IdleResolve
    /\ \/ \E fn \in {"_to_int", "_to_ts_ms"}, val \in CallValues, default \in CallDefaults :
            co = [pc |-> "call", fn |-> fn, val |-> val, default |-> default,
                  columns |-> <<>>, row |-> <<>>, result |-> PyNone]
       \/ \E columns \in TagHeaderSeqs : \E row \in TagRows(columns) :
            co = [pc |-> "call", fn |-> "merged_tag_list", val |-> PyNone, default |-> PyNone,
                  columns |-> columns, row |-> row, result |-> PyNone]

\* _to_int(val, default); an exception that leaves the call is its result
CallToInt ==
    /\ co.pc = "call" /\ co.fn = "_to_int"
    /\ co' = [co EXCEPT !.pc = "returned", !.result = _to_int(co.val, co.default)]
    /\ UNCHANGED <<wb, nruns, run, persisted, rs>>

\* _to_ts_ms(val, default)
CallToTsMs ==
    /\ co.pc = "call" /\ co.fn = "_to_ts_ms"
    /\ co' = [co EXCEPT !.pc = "returned", !.result = _to_ts_ms(co.val, co.default)]
    /\ UNCHANGED <<wb, nruns, run, persisted, rs>>

\* lines 270-281 on one row of a note sheet
CallTagMerge ==
    /\ co.pc = "call" /\ co.fn = "merged_tag_list"
    /\ co' = [co EXCEPT !.pc = "returned",
                        !.result = merged_tag_list(co.columns, co.row,
                                                   _build_col_map(co.columns, NOTE_ALIASES))]
    /\ UNCHANGED <<wb, nruns, run, persisted, rs>>

NextCall == CallToInt \/ CallToTsMs \/ CallTagMerge

SpecCall == InitCall /\ [][NextCall]_vars


(***************************************************************************)
(* Properties.                                                             *)
(***************************************************************************)
\* the least element of a non-empty set of numbers
Min(S) == CHOOSE x \in S : \A y \in S : x <= y

\* the batches of a table that run r handed to its session
BatchesOf(r, table) == SelectSeq(run[r].added, LAMBDA b : b.table = table)

\* the column map of run r's creator sheet, and the user_id cell of its row p
CreatorMap(r) == _build_col_map(run[r].df_creators.columns, CREATOR_ALIASES)
UserIdCell(r, p) == _get(run[r].df_creators.rows[p], CreatorMap(r), "user_id", PyNone)

\* C1: after _build_col_map, every field of the schema whose aliases match no
\* header (case-insensitively, label against label) is absent from the map,
\* and every other field maps to a header of the sheet that equals,
\* case-insensitively, the earliest alias of the field's list that matches
\* some header; this fixes the map whatever the order of the headers.
C1_AliasPriority ==
    rs.pc = "returned" =>
        LET aliases == AliasesOf(rs.kind)
            hdrs == {rs.columns[j] : j \in DOMAIN rs.columns}
        IN /\ DOMAIN rs.col_map \subseteq DOMAIN aliases
           /\ \A field \in DOMAIN aliases :
                LET names == aliases[field]
                    hits == {j \in DOMAIN names : \E h \in hdrs : Lower(h) = Lower(names[j])}
                IN IF hits = {} THEN field \notin DOMAIN rs.col_map
                   ELSE /\ field \in DOMAIN rs.col_map
                        /\ rs.col_map[field] \in hdrs
                        /\ Lower(rs.col_map[field]) = Lower(names[Min(hits)])

\* C1: the headers zan (赞), dianzan (点赞), Note_ID and dianzanshu resolve
\* liked_count to dianzan and note_id to Note_ID
C1_Witness ==
    /\ rs.pc = "returned"
    /\ rs.kind = "note"
    /\ rs.columns = <<"zan", "dianzan", "Note_ID">>
    /\ rs.col_map = [liked_count |-> "dianzan", note_id |-> "Note_ID"]

\* the records objs, made from the first n rows of run r's creator sheet, hold
\* no user_id twice, and each is the record of the first of these rows whose
\* user_id cell has that text form
DedupOK(r, objs, n) ==
    /\ \A a, b \in DOMAIN objs : a # b => objs[a].user_id # objs[b].user_id
    /\ \A a \in DOMAIN objs :
         LET same == {p \in 1..n : /\ UserIdCell(r, p) # PyNone
                                   /\ Str(UserIdCell(r, p)) = objs[a].user_id.s}
         IN /\ same # {}
            /\ objs[a] = XhsCreator(run[r].df_creators.rows[Min(same)], CreatorMap(r),
                                    objs[a].user_id.s, run[r].now_ms)
            /\ objs[a].nickname =
                 _get(run[r].df_creators.rows[Min(same)], CreatorMap(r), "nickname", PyNone)

\* C2: whatever rows of the creator sheet a run has processed, its creator
\* records hold no user_id twice and the record of a user_id carries the
\* values of the first row with that user_id; so does the batch handed over.
C2_CreatorDedup ==
    \A r \in Runs :
        /\ run[r].pc = "creator_rows" => DedupOK(r, run[r].objs, run[r].i - 1)
        /\ \A j \in DOMAIN BatchesOf(r, "xhs_creator") :
              DedupOK(r, BatchesOf(r, "xhs_creator")[j].objs, Len(run[r].df_creators.rows))

\* C2: the rows (u1, A), (u1, B) have been processed and gave the one record
\* (u1, A)
C2_Witness ==
    \E r \in Runs :
        /\ run[r].pc = "creator_rows"
        /\ run[r].i = 3
        /\ run[r].df_creators.rows[1] = ("user_id" :> PyStr("u1")) @@ ("nickname" :> PyStr("A"))
        /\ run[r].df_creators.rows[2] = ("user_id" :> PyStr("u1")) @@ ("nickname" :> PyStr("B"))
        /\ Len(run[r].objs) = 1
        /\ run[r].objs[1].user_id = PyStr("u1")
        /\ run[r].objs[1].nickname = PyStr("A")

\* a record without the run's start time
NoTs(obj) == [obj EXCEPT !.add_ts = PyNone, !.last_modify_ts = PyNone]

\* the creator records run r handed over, without the run's start time
CreatorsHanded(r) ==
    LET bs == BatchesOf(r, "xhs_creator")
    IN IF bs = <<>> THEN <<>> ELSE [j \in DOMAIN bs[1].objs |-> NoTs(bs[1].objs[j])]

\* the rows of a table in the persistence layer
PersistedOf(table) == SelectSeq(persisted, LAMBDA x : x.table = table)

\* C3: of two runs over the same workbook that both end with a commit, the
\* later hands over the creator records the earlier handed over (it is not
\* affected by the earlier run's seen user_ids), and the persistence layer
\* holds the records of both: each record once per run.
C3_NoCrossRunDedup ==
    \A q, r \in Runs :
        (q < r /\ run[q].session = "committed" /\ run[r].session = "committed") =>
            /\ CreatorsHanded(r) = CreatorsHanded(q)
            /\ \A j \in DOMAIN CreatorsHanded(q) :
                 Cardinality({x \in DOMAIN PersistedOf("xhs_creator") :
                                NoTs(PersistedOf("xhs_creator")[x].obj) = CreatorsHanded(q)[j]})
                   = Cardinality({z \in Runs : run[z].session = "committed"})

\* C3: the one creator row (u1, A) was imported by two runs and is persisted
\* twice
C3_Witness ==
    /\ run[1].session = "committed"
    /\ run[2].session = "committed"
    /\ Len(run[1].df_creators.rows) = 1
    /\ Len(PersistedOf("xhs_creator")) = 2
    /\ PersistedOf("xhs_creator")[1].obj.user_id = PyStr("u1")
    /\ PersistedOf("xhs_creator")[2].obj.user_id = PyStr("u1")

\* C4: while note_id resolves to no column, a run has made one note record
\* for each row it has processed, the record of the row at zero-based index
\* idx carrying the note_id "row_" followed by idx + 1; the note_ids are
\* pairwise distinct and the batch handed over has one record per row.
C4_SynthesizedIds ==
    \A r \in Runs :
        LET unresolved == "note_id" \notin DOMAIN _build_col_map(run[r].df_notes.columns, NOTE_ALIASES)
            SynthOK(objs) ==
                /\ \A j \in DOMAIN objs : objs[j].note_id = PyStr("row_" \o NatStr(j))
                /\ \A a, b \in DOMAIN objs : a # b => objs[a].note_id # objs[b].note_id
        IN unresolved =>
            /\ run[r].pc = "note_rows" =>
                 Len(run[r].objs) = run[r].i - 1 /\ SynthOK(run[r].objs)
            /\ \A j \in DOMAIN BatchesOf(r, "xhs_note") :
                 /\ Len(BatchesOf(r, "xhs_note")[j].objs) = Len(run[r].df_notes.rows)
                 /\ SynthOK(BatchesOf(r, "xhs_note")[j].objs)
            /\ (run[r].pc \in {"comment", "comment_rows", "exit", "done"}
                    /\ run[r].session # "none" /\ ~Empty(run[r].df_notes))
                 => Len(BatchesOf(r, "xhs_note")) = 1

\* C4: the row at zero-based index 3 of a sheet without a note_id column gave
\* the note_id "row_4"
C4_Witness ==
    \E r \in Runs :
        /\ run[r].pc = "note_rows"
        /\ "note_id" \notin DOMAIN run[r].col_map
        /\ Len(run[r].objs) = 4
        /\ run[r].objs[3 + 1].note_id = PyStr("row_4")


\* the column maps of run r's note and comment sheets, and the cell of a
\* field in row p of each
NoteMap(r) == _build_col_map(run[r].df_notes.columns, NOTE_ALIASES)
NoteCell(r, field, p) == _get(run[r].df_notes.rows[p], NoteMap(r), field, PyNone)
CommentMap(r) == _build_col_map(run[r].df_comments.columns, COMMENT_ALIASES)
CommentCell(r, field, p) == _get(run[r].df_comments.rows[p], CommentMap(r), field, PyNone)

\* the rows K of a sheet in sheet order, each made into make[p]
InRowOrder(K, make) ==
    [j \in 1..Cardinality(K) |-> make[CHOOSE p \in K : Cardinality({q \in K : q <= p}) = j]]

\* C5 (the claim as stated; the code departs from it): with note_id resolved
\* to a column, the rows processed so far that gave a record are exactly the
\* rows whose note_id cell is not empty, each record carrying the text form of
\* the cell, and user_id "unknown" when the row has no user_id.
C5_NoteRowPolicy ==
    \A r \in Runs :
        (run[r].pc = "note_rows" /\ "note_id" \in DOMAIN NoteMap(r)) =>
            LET K == {p \in 1..(run[r].i - 1) : NoteCell(r, "note_id", p) # PyNone}
            IN /\ Len(run[r].objs) = Cardinality(K)
               /\ \A j \in DOMAIN run[r].objs :
                    LET p == CHOOSE p \in K : Cardinality({q \in K : q <= p}) = j
                    IN /\ run[r].objs[j].note_id = PyStr(Str(NoteCell(r, "note_id", p)))
                       /\ NoteCell(r, "user_id", p) = PyNone
                            => run[r].objs[j].user_id = PyStr("unknown")

\* what the code does where C5 says "empty": the rows that gave a record are
\* the rows whose note_id cell is truthy (a cell holding 0 is skipped too)
NoteRowsAreTheTruthy ==
    \A r \in Runs :
        (run[r].pc = "note_rows" /\ "note_id" \in DOMAIN NoteMap(r)) =>
            LET K == {p \in 1..(run[r].i - 1) : Truthy(NoteCell(r, "note_id", p))}
            IN /\ Len(run[r].objs) = Cardinality(K)
               /\ \A j \in DOMAIN run[r].objs :
                    LET p == CHOOSE p \in K : Cardinality({q \in K : q <= p}) = j
                    IN /\ run[r].objs[j].note_id = PyStr(Str(NoteCell(r, "note_id", p)))
                       /\ ~Truthy(NoteCell(r, "user_id", p))
                            => run[r].objs[j].user_id = PyStr("unknown")

\* C6 (the claim as stated; the code departs from it): a comment sheet gives
\* records only when comment_id and note_id both resolve, and then the rows
\* processed so far that gave a record are exactly the rows whose two cells
\* are both not empty; the other rows are passed over and the loop goes on.
C6_CommentRequirements ==
    \A r \in Runs :
        /\ ({"comment_id", "note_id"} \subseteq DOMAIN CommentMap(r))
             \/ BatchesOf(r, "xhs_note_comment") = <<>>
        /\ run[r].pc = "comment_rows" =>
             LET K == {p \in 1..(run[r].i - 1) : /\ CommentCell(r, "comment_id", p) # PyNone
                                                 /\ CommentCell(r, "note_id", p) # PyNone}
             IN /\ {"comment_id", "note_id"} \subseteq DOMAIN CommentMap(r)
                /\ Len(run[r].objs) = Cardinality(K)
                /\ \A j \in DOMAIN run[r].objs :
                     LET p == CHOOSE p \in K : Cardinality({q \in K : q <= p}) = j
                     IN /\ run[r].objs[j].comment_id = PyStr(Str(CommentCell(r, "comment_id", p)))
                        /\ run[r].objs[j].note_id = PyStr(Str(CommentCell(r, "note_id", p)))

\* what the code does where C6 says "non-empty": both cells truthy
CommentRowsAreTheTruthy ==
    \A r \in Runs :
        /\ ({"comment_id", "note_id"} \subseteq DOMAIN CommentMap(r))
             \/ BatchesOf(r, "xhs_note_comment") = <<>>
        /\ run[r].pc = "comment_rows" =>
             LET K == {p \in 1..(run[r].i - 1) : /\ Truthy(CommentCell(r, "comment_id", p))
                                                 /\ Truthy(CommentCell(r, "note_id", p))}
             IN /\ {"comment_id", "note_id"} \subseteq DOMAIN CommentMap(r)
                /\ Len(run[r].objs) = Cardinality(K)
                /\ \A j \in DOMAIN run[r].objs :
                     LET p == CHOOSE p \in K : Cardinality({q \in K : q <= p}) = j
                     IN /\ run[r].objs[j].comment_id = PyStr(Str(CommentCell(r, "comment_id", p)))
                        /\ run[r].objs[j].note_id = PyStr(Str(CommentCell(r, "note_id", p)))

\* C7 (the claim as stated; the code departs from it): a creator sheet whose
\* user_id resolves to no column gives no creator record; otherwise every row
\* processed so far whose user_id cell is not empty, and which is the first
\* with that user_id, gave a record whose user_id is the text form of the
\* cell, and the rows with an empty cell gave none.
C7_CreatorSkipPolicy ==
    \A r \in Runs :
        /\ "user_id" \in DOMAIN CreatorMap(r) \/ BatchesOf(r, "xhs_creator") = <<>>
        /\ run[r].pc = "creator_rows" =>
             /\ "user_id" \in DOMAIN CreatorMap(r)
             /\ {run[r].objs[j].user_id : j \in DOMAIN run[r].objs}
                  = {PyStr(Str(UserIdCell(r, p))) :
                        p \in {q \in 1..(run[r].i - 1) : UserIdCell(r, q) # PyNone}}

\* what the code does where C7 says "non-empty": the cell is truthy
CreatorRowsAreTheTruthy ==
    \A r \in Runs :
        /\ "user_id" \in DOMAIN CreatorMap(r) \/ BatchesOf(r, "xhs_creator") = <<>>
        /\ run[r].pc = "creator_rows" =>
             /\ "user_id" \in DOMAIN CreatorMap(r)
             /\ {run[r].objs[j].user_id : j \in DOMAIN run[r].objs}
                  = {PyStr(Str(UserIdCell(r, p))) :
                        p \in {q \in 1..(run[r].i - 1) : Truthy(UserIdCell(r, q))}}


\* the records a table's section is to give, from that table's data frame
\* and the run's start time alone: none for a missing or empty sheet or an
\* unresolved required column, otherwise the records of the accepted rows in
\* sheet order
CreatorsFrom(df, now) ==
    LET cm == _build_col_map(df.columns, CREATOR_ALIASES)
        cell(p) == _get(df.rows[p], cm, "user_id", PyNone)
        K == {p \in DOMAIN df.rows :
                /\ Truthy(cell(p))
                /\ \A q \in 1..(p - 1) : Truthy(cell(q)) => Str(cell(q)) # Str(cell(p))}
    IN IF df.none \/ Empty(df) \/ "user_id" \notin DOMAIN cm THEN <<>>
       ELSE InRowOrder(K, [p \in K |-> XhsCreator(df.rows[p], cm, Str(cell(p)), now)])

NotesFrom(df, now) ==
    LET cm == _build_col_map(df.columns, NOTE_ALIASES)
        cell(p) == _get(df.rows[p], cm, "note_id", PyNone)
        K == {p \in DOMAIN df.rows : "note_id" \in DOMAIN cm => Truthy(cell(p))}
    IN IF df.none \/ Empty(df) THEN <<>>
       ELSE InRowOrder(K, [p \in K |->
                XhsNote(df.columns, df.rows[p], cm,
                        IF "note_id" \in DOMAIN cm THEN cell(p) ELSE PyStr("row_" \o NatStr(p)),
                        now)])

CommentsFrom(df, now) ==
    LET cm == _build_col_map(df.columns, COMMENT_ALIASES)
        cid(p) == _get(df.rows[p], cm, "comment_id", PyNone)
        nid(p) == _get(df.rows[p], cm, "note_id", PyNone)
        K == {p \in DOMAIN df.rows : Truthy(cid(p)) /\ Truthy(nid(p))}
    IN IF df.none \/ Empty(df) \/ ~({"comment_id", "note_id"} \subseteq DOMAIN cm) THEN <<>>
       ELSE InRowOrder(K, [p \in K |-> XhsNoteComment(df.rows[p], cm, cid(p), nid(p), now)])

\* the records of a table that run r handed over, batch after batch
RECURSIVE Concat(_)
Concat(batches) == IF batches = <<>> THEN <<>> ELSE batches[1].objs \o Concat(Tail(batches))
Handed(r, table) == Concat(BatchesOf(r, table))

\* some cell of the frame is an infinite number
HasInf(df) == \E p \in DOMAIN df.rows : \E c \in DOMAIN df.rows[p] : df.rows[p][c] = PyInf

\* the section of run r's data frame df is passed over: no such sheet, an
\* empty sheet, or a required column missing
Skipped(df, aliases, required) ==
    df.none \/ Empty(df) \/ ~(required \subseteq DOMAIN _build_col_map(df.columns, aliases))

\* C8: a run that came to its end handed over, for each entity, exactly the
\* records of that entity's own sheet, whichever of the other sections were
\* passed over (missing sheet, empty sheet, unresolvable required column);
\* and a run is only ever ended by an exception when a cell holds an
\* infinite number, never by a section being passed over.
C8_SectionIsolation ==
    \A r \in Runs :
        /\ run[r].session = "committed" =>
             /\ Handed(r, "xhs_creator") = CreatorsFrom(run[r].df_creators, run[r].now_ms)
             /\ Handed(r, "xhs_note") = NotesFrom(run[r].df_notes, run[r].now_ms)
             /\ Handed(r, "xhs_note_comment") = CommentsFrom(run[r].df_comments, run[r].now_ms)
        /\ run[r].pc \in {"raised", "failed"} =>
             HasInf(run[r].df_creators) \/ HasInf(run[r].df_notes) \/ HasInf(run[r].df_comments)

\* C8: a run came to its end with the creator section passed over for want
\* of a user_id column and the comment section for want of a sheet, and
\* handed over the notes of its note sheet
C8_Witness ==
    \E r \in Runs :
        /\ run[r].session = "committed"
        /\ ~run[r].df_creators.none /\ ~Empty(run[r].df_creators)
        /\ Skipped(run[r].df_creators, CREATOR_ALIASES, {"user_id"})
        /\ run[r].df_comments.none
        /\ Handed(r, "xhs_creator") = <<>>
        /\ Handed(r, "xhs_note_comment") = <<>>
        /\ Len(Handed(r, "xhs_note")) = 2

\* C9: once the layout is detected, a workbook of exactly one sheet has that
\* sheet as creator frame and as note frame and no comment frame, with no
\* warning or error logged for it; every other workbook (two sheets too) has
\* each frame looked up under its configured name, None exactly when the
\* workbook has no sheet of that name.
C9_LayoutDetection ==
    \A r \in Runs :
        run[r].pc \notin {"idle"} =>
            LET w == wb[r]
                names == {w.sheet_names[j] : j \in DOMAIN w.sheet_names}
                lookup(nm) == IF nm \in names THEN w.sheets[nm] ELSE DfNone
            IN IF Len(w.sheet_names) = 1
               THEN /\ run[r].df_creators = w.sheets[w.sheet_names[1]]
                    /\ run[r].df_notes = w.sheets[w.sheet_names[1]]
                    /\ run[r].df_comments = DfNone
                    /\ run[r].pc = "get_session" =>
                         \A j \in DOMAIN run[r].log : run[r].log[j].level = "info"
               ELSE /\ run[r].df_creators = lookup(creators_sheet)
                    /\ run[r].df_notes = lookup(notes_sheet)
                    /\ run[r].df_comments = lookup(comments_sheet)
                    /\ \A nm \in {creators_sheet, notes_sheet, comments_sheet} :
                         lookup(nm).none <=> nm \notin names

\* C9: the one row of a one-sheet workbook gave a creator record and a note
\* record, and no comment frame was read
C9_Witness ==
    \E r \in Runs :
        /\ Len(wb[r].sheet_names) = 1
        /\ run[r].session = "committed"
        /\ Len(run[r].df_notes.rows) = 1
        /\ run[r].df_comments.none
        /\ Len(Handed(r, "xhs_creator")) = 1
        /\ Len(Handed(r, "xhs_note")) = 1

\* the place of a table in the hand-over order
Rank(table) ==
    CASE table = "xhs_creator" -> 1 [] table = "xhs_note" -> 2 [] table = "xhs_note_comment" -> 3

\* C10: in every state of every run the batches handed to the session so far
\* are in the order creators, notes, comments with no table handed twice,
\* each batch holds the accepted records of its sheet in sheet row order, and
\* the run has asked for at most one commit.
C10_HandOverProtocol ==
    \A r \in Runs :
        /\ \A a, b \in DOMAIN run[r].added :
              a < b => Rank(run[r].added[a].table) < Rank(run[r].added[b].table)
        /\ \A a \in DOMAIN run[r].added :
              run[r].added[a].objs =
                CASE run[r].added[a].table = "xhs_creator" ->
                        CreatorsFrom(run[r].df_creators, run[r].now_ms)
                  [] run[r].added[a].table = "xhs_note" ->
                        NotesFrom(run[r].df_notes, run[r].now_ms)
                  [] run[r].added[a].table = "xhs_note_comment" ->
                        CommentsFrom(run[r].df_comments, run[r].now_ms)
        /\ run[r].commits <= 1
        /\ run[r].commits = 1 <=> run[r].session = "committed"

\* C10: a run handed over creators, then notes (two of them, in row order),
\* then comments, and asked for its one commit
C10_Witness ==
    \E r \in Runs :
        /\ run[r].commits = 1
        /\ [j \in DOMAIN run[r].added |-> run[r].added[j].table]
             = <<"xhs_creator", "xhs_note", "xhs_note_comment">>
        /\ Len(run[r].added[2].objs) = 2
        /\ run[r].added[2].objs[1].note_id # run[r].added[2].objs[2].note_id

\* the positions of a run inside the block of `async with get_session()`
InSession == {"creator", "creator_rows", "note", "note_rows", "comment", "comment_rows", "exit", "raised"}

\* C11: a run holds a session exactly while it is inside the session block;
\* a run that has ended -- at the end of the
\* block, by the early return, or by an exception -- holds none: its session
\* was committed or rolled back, or it never got one; and a run takes a
\* session at most once: a session once taken is never taken anew, and one
\* that was released stays released.
C11_SessionLifecycle ==
    /\ [](\A r \in Runs :
            /\ run[r].session = "open" <=> run[r].pc \in InSession \ {"exit"} \/ (run[r].pc = "exit" /\ run[r].session # "none")
            /\ run[r].pc \in {"done", "failed"} =>
                  run[r].session \in {"committed", "rolled_back", "none"}
            /\ run[r].pc = "failed" => run[r].session = "rolled_back"
            /\ run[r].pc \in {"idle", "get_session"} <=> run[r].session = "unset")
    /\ [][\A r \in Runs :
            /\ run[r].session # "unset" => run'[r].session # "unset"
            /\ run[r].session \in {"committed", "rolled_back", "none"} =>
                  run'[r].session = run[r].session
            /\ run[r].session = "open" =>
                  run'[r].session \in {"open", "committed", "rolled_back"}]_vars

\* C11: a run whose note row raised has ended with its session rolled back
C11_Witness ==
    \E r \in Runs :
        /\ run[r].pc = "failed"
        /\ run[r].session = "rolled_back"
        /\ HasInf(run[r].df_notes)
        /\ run[r].added # <<>>

\* the summary line of an entity for n accepted records, and the places in
\* run r's log of the summary lines of an entity whose frame is df
SummaryOf(entity, n) == "Inserted " \o NatStr(n) \o " " \o entity
Summaries(r, entity, df) ==
    {j \in DOMAIN run[r].log :
        \E n \in 0..Len(df.rows) : run[r].log[j].line = SummaryOf(entity, n)}

\* the log of run r has exactly one summary line of the entity, and it
\* gives the number of records handed over for the table
OneSummary(r, entity, df, table) ==
    /\ Cardinality(Summaries(r, entity, df)) = 1
    /\ \A j \in Summaries(r, entity, df) :
          run[r].log[j].line = SummaryOf(entity, Len(Handed(r, table)))

C13_CoercionNeverRaises ==
    (co.pc = "returned" /\ co.fn \in {"_to_int", "_to_ts_ms"}) =>
        /\ co.result.k # "raise"
        /\ co.result.k = "int" \/ co.result = co.default

\* what does hold: the only exception that leaves either helper is the
\* OverflowError of an infinite number, be it a float or a text that parses
\* to one
OnlyInfinityRaises ==
    (co.pc = "returned" /\ co.fn \in {"_to_int", "_to_ts_ms"}) =>
        IF co.val = PyInf \/ (co.val.k = "str" /\ ParseFloat(co.val.s) = PyInf)
        THEN co.result = PyRaise
        ELSE co.result.k = "int" \/ co.result = co.default

\* the frames a run reads from the workbook w when it is the only run
FramesAlone(w) ==
    LET names == {w.sheet_names[j] : j \in DOMAIN w.sheet_names}
        lookup(nm) == IF nm \in names THEN w.sheets[nm] ELSE DfNone
    IN IF Len(w.sheet_names) = 1
       THEN [creators |-> w.sheets[w.sheet_names[1]], notes |-> w.sheets[w.sheet_names[1]],
             comments |-> DfNone]
       ELSE [creators |-> lookup(creators_sheet), notes |-> lookup(notes_sheet),
             comments |-> lookup(comments_sheet)]

\* the first n rows of a frame
FirstRows(df, n) == Df(df.columns, SubSeq(df.rows, 1, n))

\* C14: with the steps of two runs over different workbooks interleaved in
\* any way, each run reads the frames of its own workbook; while it goes
\* through its creator rows its column map, its seen user_ids and its
\* records so far are those its own rows give; and once it has committed,
\* the batches it handed over are those its own workbook and start time give
\* when it runs alone, the other run's rows adding and removing nothing.
C14_RunIndependence ==
    \A r \in Runs :
        LET own == FramesAlone(wb[r]) IN
        /\ run[r].pc # "idle" =>
             /\ run[r].df_creators = own.creators
             /\ run[r].df_notes = own.notes
             /\ run[r].df_comments = own.comments
        /\ run[r].pc = "creator_rows" =>
             LET sofar == CreatorsFrom(FirstRows(own.creators, run[r].i - 1), run[r].now_ms)
             IN /\ run[r].col_map = _build_col_map(own.creators.columns, CREATOR_ALIASES)
                /\ run[r].objs = sofar
                /\ run[r].seen_user_ids = {sofar[j].user_id.s : j \in DOMAIN sofar}
        /\ run[r].pc = "note_rows" =>
             /\ run[r].col_map = _build_col_map(own.notes.columns, NOTE_ALIASES)
             /\ run[r].objs = NotesFrom(FirstRows(own.notes, run[r].i - 1), run[r].now_ms)
        /\ run[r].pc = "comment_rows" =>
             /\ run[r].col_map = _build_col_map(own.comments.columns, COMMENT_ALIASES)
             /\ run[r].objs = CommentsFrom(FirstRows(own.comments, run[r].i - 1), run[r].now_ms)
        /\ run[r].session = "committed" =>
             /\ Handed(r, "xhs_creator") = CreatorsFrom(own.creators, run[r].now_ms)
             /\ Handed(r, "xhs_note") = NotesFrom(own.notes, run[r].now_ms)
             /\ Handed(r, "xhs_note_comment") = CommentsFrom(own.comments, run[r].now_ms)

\* C14: both runs are in the middle of their creator rows at once, each
\* having seen the user u1 and made its own record of that user, the first
\* run with one more row of u1 to come
C14_Witness ==
    /\ wb[1] # wb[2]
    /\ run[1].pc = "creator_rows" /\ run[2].pc = "creator_rows"
    /\ Len(run[1].df_creators.rows) = 2 /\ run[1].i = 2
    /\ run[1].seen_user_ids = {"u1"} /\ run[2].seen_user_ids = {"u1"}
    /\ Len(run[1].objs) = 1 /\ Len(run[2].objs) = 1
    /\ run[1].objs[1].user_id = PyStr("u1") /\ run[2].objs[1].user_id = PyStr("u1")
    /\ run[1].objs[1] # run[2].objs[1]

Max(S) == CHOOSE x \in S : \A y \in S : x >= y

\* the places in the header row of the headers that equal the label h
\* case-insensitively
SameKey(columns, h) == {j \in DOMAIN columns : Lower(columns[j]) = Lower(h)}

\* C15 (the claim as stated; it does not hold): every field of the map is
\* resolved to the FIRST, in header order, of the headers that equal its
\* column case-insensitively.
C15_FirstOccurrenceWins ==
    rs.pc = "returned" =>
        \A field \in DOMAIN rs.col_map :
            rs.col_map[field] = rs.columns[Min(SameKey(rs.columns, rs.col_map[field]))]

\* C15 (amended): every field of the map is resolved to the LAST, in header
\* order, of the headers that equal its column case-insensitively; and a
\* second call on the same schema and headers gives the map the first gave.
C15_LastOccurrenceWins ==
    rs.pc = "returned" =>
        /\ \A field \in DOMAIN rs.col_map :
              rs.col_map[field] = rs.columns[Max(SameKey(rs.columns, rs.col_map[field]))]
        /\ _build_col_map(rs.columns, AliasesOf(rs.kind)) = rs.col_map

\* C15: of the headers note_id, Note_ID in this order the note_id field is
\* resolved to Note_ID, and with dianzan before Dianzan liked_count to Dianzan
C15_Witness ==
    /\ rs.pc = "returned" /\ rs.kind = "note"
    /\ rs.columns = <<"note_id", "dianzan", "Note_ID">>
    /\ rs.col_map["note_id"] = "Note_ID"
    /\ rs.col_map["liked_count"] = "dianzan"

\* the cell of row under the literal column label, PyNone when the sheet has
\* no such column
LiteralCell(columns, row, label) ==
    IF \E j \in DOMAIN columns : columns[j] = label THEN row[label] ELSE PyNone

\* the text a cell gives a tag: its text form without the white space around
\* it; "" for an empty cell
TagText(val) == IF isna(val) THEN "" ELSE Strip(Str(val))

\* the merged tag of a row: the tag of the resolved tag_list cell, then the
\* tags of the literal columns in their fixed order, of the cells that count
\* as a value; None when there is no tag
MergedTag(columns, row, Counts(_)) ==
    LET first == TagText(_get(row, _build_col_map(columns, NOTE_ALIASES), "tag_list", PyNone))
        K == {j \in DOMAIN TagColumns : Counts(LiteralCell(columns, row, TagColumns[j]))}
        rest == InRowOrder(K, [j \in K |-> TagText(LiteralCell(columns, row, TagColumns[j]))])
        tags == IF first # "" THEN <<first>> \o rest ELSE rest
    IN IF tags = <<>> THEN PyNone ELSE PyStr(Join(tags))

\* a cell that is not blank, whatever its type; a text cell that is not blank
NonBlank(val) == TagText(val) # ""
NonBlankText(val) == val.k = "str" /\ TagText(val) # ""

\* C16 (the claim as stated; the code departs from it): the merged tag_list of a
\* note row is the " | "-join of the resolved tag_list value, when there is
\* one and it is not blank, and then of every non-blank value of the literal
\* columns of the sheet in their fixed order; None when there is no value.
C16_TagMerge ==
    (co.pc = "returned" /\ co.fn = "merged_tag_list") =>
        co.result = MergedTag(co.columns, co.row, NonBlank)

\* what does hold: of the literal columns only the non-blank text cells
\* count, a number in such a column giving no tag; every tag is the text
\* without the white space around it, and the result is never "".
TagMergeOfTexts ==
    (co.pc = "returned" /\ co.fn = "merged_tag_list") =>
        /\ co.result = MergedTag(co.columns, co.row, NonBlankText)
        /\ co.result # PyStr("")

\* the value is an infinite number, or a text that float() reads as one
IsInfinite(val) == val = PyInf \/ (val.k = "str" /\ Strip(val.s) # "" /\ ParseFloat(val.s) = PyInf)

\* the value is a text that float() reads as a finite number
IsNumericText(val) == val.k = "str" /\ Strip(val.s) # "" /\ ParseFloat(val.s).k = "float"

\* what the claim has _to_int return: an int unchanged, a float and a numeric
\* text cut toward zero, the default for everything else
ToIntStated(val, default) ==
    CASE val.k = "int" -> val
      [] val.k = "float" -> PyInt(Trunc(val.n))
      [] IsNumericText(val) -> PyInt(Trunc(ParseFloat(val.s).n))
      [] OTHER -> default

\* C17 (the claim as stated; the code departs from it): _to_int returns an
\* int unchanged, a float cut toward zero (12.9 gives 12, -3.9 gives -3), a
\* numeric text parsed as a float and cut the same way ("12.9" gives 12),
\* and its default for every other value; it returns for every value.
C17_ToInt ==
    (co.pc = "returned" /\ co.fn = "_to_int") =>
        /\ co.result.k # "raise"
        /\ ~IsInfinite(co.val) => co.result = ToIntStated(co.val, co.default)

\* what does hold: the claim's cases for every value but an infinite one
ToIntOfFinite ==
    (co.pc = "returned" /\ co.fn = "_to_int") =>
        IF IsInfinite(co.val) THEN co.result = PyRaise
        ELSE co.result = ToIntStated(co.val, co.default)

\* what the claim has _to_ts_ms return: the integer _to_int makes of the
\* value when it makes one, else the instant of a date-time or of a text
\* that parses as one, in ms, else the default
ToTsMsStated(val, default) ==
    IF ToIntStated(val, PyNone).k = "int" THEN ToIntStated(val, PyNone)
    ELSE IF val.k = "datetime" THEN PyInt(val.n)
    ELSE IF val.k = "str" /\ ParseDatetime(val.s).k = "datetime" THEN PyInt(ParseDatetime(val.s).n)
    ELSE default

\* C18 (the claim as stated; the code departs from it): _to_ts_ms returns
\* the integer _to_int makes of the value, unchanged (1700000000 stays
\* 1700000000); otherwise the instant the value parses to, in ms; and the
\* default when the value is null or does not parse.
C18_ToTsMs ==
    (co.pc = "returned" /\ co.fn = "_to_ts_ms") =>
        co.result = ToTsMsStated(co.val, co.default)

\* what does hold: the claim's cases for every value but an infinite one
ToTsMsOfFinite ==
    (co.pc = "returned" /\ co.fn = "_to_ts_ms") =>
        IF IsInfinite(co.val) THEN co.result = PyRaise
        ELSE co.result = ToTsMsStated(co.val, co.default)

\* C19: a run that got None for a session is at the end of the session block
\* or has returned, never raised; it has resolved no column map, made no
\* record, handed no batch to persistence and asked for no commit; the last
\* line it logged is the error about the session, and when it is the only
\* run nothing is persisted.
C19_NoSession ==
    \A r \in Runs :
        run[r].session = "none" =>
            /\ run[r].pc \in {"exit", "done"}
            /\ run[r].col_map = EmptyMap /\ run[r].objs = <<>> /\ run[r].seen_user_ids = {}
            /\ run[r].added = <<>> /\ run[r].commits = 0
            /\ run[r].log # <<>>
            /\ run[r].log[Len(run[r].log)] = [level |-> "error", line |-> "no SQL session"]
            /\ nruns = 1 => persisted = <<>>

\* C19: a run returned with no session from a workbook whose creator sheet
\* and note sheet each hold a row that a run with a session imports
C19_Witness ==
    \E r \in Runs :
        /\ run[r].session = "none" /\ run[r].pc = "done"
        /\ CreatorsFrom(run[r].df_creators, run[r].now_ms) # <<>>
        /\ NotesFrom(run[r].df_notes, run[r].now_ms) # <<>>
        /\ run[r].added = <<>>

=============================================================================
